---- MODULE Spec2Model ----
(***************************************************************************)
(* Model of the nova core runtime (core/src): Runtime::execute and its     *)
(* collaborators Planner::plan, SecurityManager::authorize,                *)
(* Executor::execute and MemoryStore::store_execution.                     *)
(*                                                                         *)
(* Two entry points are modelled, both public in the crate:                *)
(*   entry = "runtime"  : Runtime::execute(task)                           *)
(*   entry = "executor" : Executor::execute(plan, tools) called directly   *)
(*                        with a caller-built ExecutionPlan (all fields of *)
(*                        ExecutionPlan and ExecutionStep are pub).        *)
(***************************************************************************)
EXTENDS Integers, Sequences, FiniteSets, TLC

VARIABLES entry, task, security, execConfig, plan, pc,
          graph, batches, batchIdx, handles, outputs, result, ret,
          active_tasks, memories,
          authResult, executorEntered, dispatched, outputSteps, stepErrors,
          lastStore, searchRes

\* the state of a caller of the MemoryStore API: the last store call and the
\* last search call with what they returned
memVars == <<lastStore, searchRes>>

vars == <<entry, task, security, execConfig, plan, pc,
          graph, batches, batchIdx, handles, outputs, result, ret,
          active_tasks, memories,
          authResult, executorEntered, dispatched, outputSteps, stepErrors,
          lastStore, searchRes>>

(***************************************************************************)
(* Bounds of the model.                                                    *)
(***************************************************************************)
\* longest Task.tool_calls drawn for Runtime::execute
MaxCalls == 2
\* longest ExecutionPlan.steps drawn for a direct Executor::execute call
MaxSteps == 3
\* most dependencies one step of a caller-built plan declares
MaxDeps == 1
\* largest wall-clock reading (ms, s) returned by the clock
MaxClock == 1

(***************************************************************************)
(* Program constants.                                                      *)
(***************************************************************************)
DefaultMaxParallel == 10
DefaultTimeoutMs == 30000
\* importance and decay_rate of an execution memory, in tenths (0.7, 0.1)
ExecutionImportance == 7
ExecutionDecayRate == 1

(***************************************************************************)
(* Input domains.                                                          *)
(***************************************************************************)
ToolNames == {"bash", "read", "write", "rm"}
Params == {"p0", "p1"}
TaskIds == {"task-1", "task-2"}
Descriptions == {"Read a file and display its contents"}

\* SecurityConfig::default().allowed_tools
DefaultAllowedTools == {"bash", "read", "write"}
AllowedChoices == {{}, DefaultAllowedTools, {"read"}}
DeniedChoices == {{}, {"bash"}, {"rm"}}
MaxParallelChoices == {1, DefaultMaxParallel}

\* the value serde_json::json!({}) as text
EmptyJson == "{}"

SeqsUpTo(S, n) == UNION {[1..k -> S] : k \in 0..n}

ToolCall == [tool_name : ToolNames, parameters : Params]
Tasks == [id : TaskIds, description : Descriptions,
          tool_calls : SeqsUpTo(ToolCall, MaxCalls)]
NoTask == [id |-> "", description |-> "", tool_calls |-> <<>>]

\* format!("step-{}", i)
StepId(i) == "step-" \o ToString(i)

NoPlan == [task_id |-> "", steps |-> <<>>]

\* ids a caller-built plan of n steps may name as dependencies: its own
\* steps' ids and one id that is no step of the plan
DepIds(n) == {StepId(i - 1) : i \in 1..n} \cup {"ghost"}
DepSets(n) == {D \in SUBSET DepIds(n) : Cardinality(D) <= MaxDeps}
\* the caller-built plan of n steps whose i-th step declares the
\* dependencies d[i]
DirectPlan(n, d) ==
    [task_id |-> "task-1",
     steps |-> [i \in 1..n |->
                  [id |-> StepId(i - 1), tool_name |-> "read",
                   parameters |-> "p0", dependencies |-> d[i]]]]

NoStore == [called |-> FALSE, id |-> "", ok |-> FALSE]
NoSearch == [called |-> FALSE, query |-> <<>>, limit |-> 0, results |-> <<>>]

NoResult == [kind |-> "none", task_id |-> "", success |-> FALSE,
             outputs |-> <<>>, duration_ms |-> 0, error |-> ""]
ErrResult(msg) ==
    [kind |-> "err", task_id |-> "", success |-> FALSE,
     outputs |-> <<>>, duration_ms |-> 0, error |-> msg]

(***************************************************************************)
(* Planner::plan                                                           *)
(***************************************************************************)
\* a planner that names a step after its tool instead of its position
PlannerPlan_IdFromTool(t) ==
    [task_id |-> t.id,
     steps |-> [i \in 1..Len(t.tool_calls) |->
                  [id |-> "step-" \o t.tool_calls[i].tool_name,
                   tool_name |-> t.tool_calls[i].tool_name,
                   parameters |-> t.tool_calls[i].parameters,
                   dependencies |-> {}]]]

PlannerPlan(t) ==
    [task_id |-> t.id,
     steps |-> [i \in 1..Len(t.tool_calls) |->
                  [id |-> StepId(i - 1),
                   tool_name |-> t.tool_calls[i].tool_name,
                   parameters |-> t.tool_calls[i].parameters,
                   dependencies |-> {}]]]

(***************************************************************************)
(* SecurityManager::authorize: the first offending step decides.           *)
(***************************************************************************)
AuthOk == [ok |-> TRUE, error |-> ""]
AuthErr(msg) == [ok |-> FALSE, error |-> msg]

\* an authorize that consults the deny list only when there is no allowlist
RECURSIVE AuthorizeFrom_DenyElse(_, _, _)
AuthorizeFrom_DenyElse(cfg, steps, i) ==
    IF i > Len(steps) THEN AuthOk
    ELSE IF cfg.allowed_tools # {}
         THEN IF steps[i].tool_name \notin cfg.allowed_tools
              THEN AuthErr("Tool '" \o steps[i].tool_name \o "' is not in allowlist")
              ELSE AuthorizeFrom_DenyElse(cfg, steps, i + 1)
    ELSE IF steps[i].tool_name \in cfg.denied_tools
         THEN AuthErr("Tool '" \o steps[i].tool_name \o "' is denied")
    ELSE AuthorizeFrom_DenyElse(cfg, steps, i + 1)

RECURSIVE AuthorizeFrom(_, _, _)
AuthorizeFrom(cfg, steps, i) ==
    IF i > Len(steps) THEN AuthOk
    ELSE IF cfg.allowed_tools # {} /\ steps[i].tool_name \notin cfg.allowed_tools
         THEN AuthErr("Tool '" \o steps[i].tool_name \o "' is not in allowlist")
    ELSE IF steps[i].tool_name \in cfg.denied_tools
         THEN AuthErr("Tool '" \o steps[i].tool_name \o "' is denied")
    ELSE AuthorizeFrom(cfg, steps, i + 1)

authorize(cfg, p) == AuthorizeFrom(cfg, p.steps, 1)

(***************************************************************************)
(* Executor::build_dependency_graph, DependencyGraph::execution_batches,   *)
(* Executor::execute_step                                                  *)
(***************************************************************************)
\* struct DependencyGraph {} has no fields
DependencyGraphNew == [built |-> TRUE]
NoGraph == [built |-> FALSE]

build_dependency_graph(p) == DependencyGraphNew

execution_batches(g) == <<>>

\* Result<serde_json::Value>: always Ok(json!({}))
execute_step(step) == [ok |-> TRUE, value |-> EmptyJson, error |-> ""]

(***************************************************************************)
(* Initial states.                                                         *)
(***************************************************************************)
Init ==
    /\ entry \in {"runtime", "executor"}
    /\ security \in [sandbox_mode : {"Process"},
                     allowed_tools : IF entry = "runtime" THEN AllowedChoices
                                     ELSE {DefaultAllowedTools},
                     denied_tools : IF entry = "runtime" THEN DeniedChoices
                                    ELSE {{}}]
    /\ execConfig \in [max_parallel : MaxParallelChoices,
                       default_timeout_ms : {DefaultTimeoutMs}]
    /\ IF entry = "runtime"
       THEN task \in Tasks /\ plan = NoPlan /\ pc = "plan"
       ELSE /\ task = NoTask
            /\ \E n \in 0..MaxSteps : \E d \in [1..n -> DepSets(n)] :
                  plan = DirectPlan(n, d)
            /\ pc = "execute"
    /\ graph = NoGraph
    /\ batches = <<>>
    /\ batchIdx = 0
    /\ handles = <<>>
    /\ outputs = <<>>
    /\ result = NoResult
    /\ ret = NoResult
    /\ active_tasks = <<>>
    /\ memories = <<>>
    /\ authResult = "none"
    /\ executorEntered = FALSE
    /\ dispatched = <<>>
    /\ outputSteps = <<>>
    /\ stepErrors = {}
    /\ lastStore = NoStore
    /\ searchRes = NoSearch

(***************************************************************************)
(* Runtime::execute, phase 1: let plan = self.planner.plan(&task).await?   *)
(* (Planner::plan never returns Err).                                      *)
(***************************************************************************)
RuntimePlan ==
    /\ pc = "plan"
    /\ UNCHANGED memVars
    /\ plan' = PlannerPlan(task)
    /\ pc' = "authorize"
    /\ UNCHANGED <<entry, task, security, execConfig, graph, batches, batchIdx,
                   handles, outputs, result, ret, active_tasks, memories,
                   authResult, executorEntered, dispatched, outputSteps,
                   stepErrors>>

\* RuntimeAuthorize without the `?`: the rejection is computed and dropped
RuntimeAuthorize_NoBail ==
    /\ pc = "authorize"
    /\ UNCHANGED memVars
    /\ authResult' = IF authorize(security, plan).ok THEN "ok" ELSE "rejected"
    /\ pc' = "execute"
    /\ UNCHANGED <<entry, task, security, execConfig, plan, graph, batches,
                   batchIdx, handles, outputs, result, ret, active_tasks,
                   memories, executorEntered, dispatched, outputSteps,
                   stepErrors>>

(***************************************************************************)
(* Runtime::execute, phase 2: self.security.authorize(&plan)?              *)
(* A rejection returns the error from Runtime::execute.                    *)
(***************************************************************************)
RuntimeAuthorize ==
    /\ pc = "authorize"
    /\ UNCHANGED memVars
    /\ LET r == authorize(security, plan) IN
         IF r.ok
         THEN /\ authResult' = "ok"
              /\ pc' = "execute"
              /\ ret' = ret
         ELSE /\ authResult' = "rejected"
              /\ pc' = "done"
              /\ ret' = ErrResult(r.error)
    /\ UNCHANGED <<entry, task, security, execConfig, plan, graph, batches,
                   batchIdx, handles, outputs, result, active_tasks, memories,
                   executorEntered, dispatched, outputSteps, stepErrors>>

(***************************************************************************)
(* Executor::execute, entry: outputs = Vec::new(), the graph is built and  *)
(* the batches to iterate are computed.                                    *)
(***************************************************************************)
ExecutorEnter ==
    /\ pc = "execute"
    /\ UNCHANGED memVars
    /\ executorEntered' = TRUE
    /\ outputs' = <<>>
    /\ graph' = build_dependency_graph(plan)
    /\ batches' = execution_batches(graph')
    /\ batchIdx' = 1
    /\ pc' = "loop"
    /\ UNCHANGED <<entry, task, security, execConfig, plan, handles, result,
                   ret, active_tasks, memories, authResult, dispatched,
                   outputSteps, stepErrors>>

\* a TaskResult whose success flag says whether any output was produced
TaskResultOf_SuccessFromOutputs(p, outs, dur) ==
    [kind |-> "ok", task_id |-> p.task_id, success |-> outs # <<>>,
     outputs |-> outs, duration_ms |-> dur, error |-> ""]

\* a TaskResult that does not carry the plan's task id
TaskResultOf_NoTaskId(p, outs, dur) ==
    [kind |-> "ok", task_id |-> "", success |-> TRUE,
     outputs |-> outs, duration_ms |-> dur, error |-> ""]

\* Ok(crate::TaskResult { task_id: plan.task_id, success: true, outputs,
\* duration_ms })
TaskResultOf(p, outs, dur) ==
    [kind |-> "ok", task_id |-> p.task_id, success |-> TRUE,
     outputs |-> outs, duration_ms |-> dur, error |-> ""]

\* position after Executor::execute returns: back in Runtime::execute, or at
\* the direct caller
AfterExecutor == IF entry = "runtime" THEN "store" ELSE "done"

(***************************************************************************)
(* Executor::execute, one step of `for batch in graph.execution_batches()`.*)
(*   pc = "loop": the loop head. Past the last batch the TaskResult is     *)
(*     built (success: true). A batch of one step runs execute_step        *)
(*     inline, `?` returning its error; a wider batch spawns one task per  *)
(*     step, all at once.                                                  *)
(*   pc = "join": `for handle in handles { handle.await?? }`: a spawned    *)
(*     task runs to its end (its body is Ok(json!({}))), or the first      *)
(*     handle, once finished, is joined and its output pushed.             *)
(***************************************************************************)
ExecutorRun ==
    /\ pc \in {"loop", "join"}
    /\ UNCHANGED memVars
    /\ IF pc = "loop" /\ batchIdx > Len(batches)
       THEN /\ \E d \in 0..MaxClock :
                 result' = TaskResultOf(plan, outputs, d)
            /\ pc' = AfterExecutor
            /\ UNCHANGED <<batchIdx, handles, outputs, dispatched,
                           outputSteps, stepErrors>>
       ELSE IF pc = "loop" /\ Len(batches[batchIdx]) = 1
       THEN LET step == batches[batchIdx][1]
                r == execute_step(step) IN
            /\ dispatched' = Append(dispatched, step.id)
            /\ handles' = handles
            /\ IF r.ok
               THEN /\ outputs' = Append(outputs, r.value)
                    /\ outputSteps' = Append(outputSteps, step.id)
                    /\ batchIdx' = batchIdx + 1
                    /\ pc' = "loop"
                    /\ UNCHANGED <<result, stepErrors>>
               ELSE /\ stepErrors' = stepErrors \cup {step.id}
                    /\ result' = ErrResult(r.error)
                    /\ pc' = AfterExecutor
                    /\ UNCHANGED <<outputs, outputSteps, batchIdx>>
       ELSE IF pc = "loop"
       THEN LET batch == batches[batchIdx] IN
            /\ handles' = [i \in 1..Len(batch) |->
                             [step |-> batch[i].id, state |-> "running"]]
            /\ dispatched' = dispatched \o [i \in 1..Len(batch) |-> batch[i].id]
            /\ pc' = "join"
            /\ UNCHANGED <<batchIdx, outputs, result, outputSteps, stepErrors>>
       ELSE IF handles = <<>>
       THEN /\ batchIdx' = batchIdx + 1
            /\ pc' = "loop"
            /\ UNCHANGED <<handles, outputs, result, dispatched, outputSteps,
                           stepErrors>>
       ELSE \/ /\ \E i \in 1..Len(handles) :
                    /\ handles[i].state = "running"
                    /\ handles' = [handles EXCEPT ![i].state = "finished"]
               /\ UNCHANGED <<batchIdx, outputs, result, dispatched,
                              outputSteps, stepErrors, pc>>
            \/ /\ handles[1].state = "finished"
               /\ outputs' = Append(outputs, EmptyJson)
               /\ outputSteps' = Append(outputSteps, handles[1].step)
               /\ handles' = Tail(handles)
               /\ UNCHANGED <<batchIdx, result, dispatched, stepErrors, pc>>
    /\ UNCHANGED <<entry, task, security, execConfig, plan, graph, batches,
                   ret, active_tasks, memories, authResult, executorEntered>>

(***************************************************************************)
(* MemoryStore: the table `memories` is the sequence of its rows, in       *)
(* insertion (rowid) order.                                                *)
(***************************************************************************)
\* serde_json::to_string of a value, and serde_json::from_str of that text
ToJson(v) == [json |-> v]
FromJson(text) == text.json

\* the row INSERTed for a Memory: the embedding column is not in the column
\* list (it stays NULL), tags and metadata are stored as JSON text
RowOf(m) ==
    [id |-> m.id, content |-> m.content, embedding |-> "NULL",
     timestamp |-> m.timestamp, importance |-> m.importance,
     decay_rate |-> m.decay_rate, tags |-> ToJson(m.tags),
     source |-> m.source, session_id |-> m.session_id,
     metadata |-> ToJson(m.metadata)]

\* the Memory built from a row by the closure of query_map
MemoryOf(row) ==
    [id |-> row.id, content |-> row.content, embedding |-> "None",
     timestamp |-> row.timestamp, importance |-> row.importance,
     decay_rate |-> row.decay_rate, tags |-> FromJson(row.tags),
     source |-> row.source, session_id |-> row.session_id,
     metadata |-> FromJson(row.metadata)]

\* the Memory of MemoryStore::store_execution
ExecutionMemory(t, res, uuid, now) ==
    [id |-> uuid,
     content |-> "Executed task: " \o t.description,
     embedding |-> "None",
     timestamp |-> now,
     importance |-> ExecutionImportance,
     decay_rate |-> ExecutionDecayRate,
     tags |-> <<"execution", "task">>,
     source |-> "runtime",
     session_id |-> "None",
     metadata |-> [task_id |-> t.id, success |-> res.success,
                   duration_ms |-> res.duration_ms]]

\* a store that reports success without inserting the row
store_NoInsert(rows, m) == [ok |-> TRUE, rows |-> rows]

\* MemoryStore::store: INSERT INTO memories; `id` is the PRIMARY KEY, so a
\* row whose id is already stored is refused with an error
store(rows, m) ==
    IF \E k \in 1..Len(rows) : rows[k].id = m.id
    THEN [ok |-> FALSE, rows |-> rows]
    ELSE [ok |-> TRUE, rows |-> Append(rows, RowOf(m))]

\* uuid::Uuid::new_v4(): an id no stored row has
FreshUuid(rows) == "uuid-" \o ToString(Len(rows))

(***************************************************************************)
(* Runtime::execute, phases 3 (the `?` on the executor's result) and 4:    *)
(* self.memory.store_execution(&task, &result).await?; Ok(result)          *)
(***************************************************************************)
RuntimeStore ==
    /\ pc = "store"
    /\ UNCHANGED memVars
    /\ IF result.kind = "err"
       THEN /\ ret' = result
            /\ memories' = memories
       ELSE \E now \in 0..MaxClock :
              LET r == store(memories,
                             ExecutionMemory(task, result,
                                             FreshUuid(memories), now)) IN
              /\ memories' = r.rows
              /\ ret' = IF r.ok THEN result
                        ELSE ErrResult("UNIQUE constraint failed: memories.id")
    /\ pc' = "done"
    /\ UNCHANGED <<entry, task, security, execConfig, plan, graph, batches,
                   batchIdx, handles, outputs, result, active_tasks,
                   authResult, executorEntered, dispatched, outputSteps,
                   stepErrors>>

Next ==
    \/ RuntimePlan
    \/ RuntimeAuthorize
    \/ ExecutorEnter
    \/ ExecutorRun
    \/ RuntimeStore

Spec == Init /\ [][Next]_vars

(***************************************************************************)
(* Properties.                                                             *)
(***************************************************************************)
\* the plan Runtime::execute holds once the planning phase is over
Planned == entry = "runtime" /\ pc \notin {"plan", "authorize"}

\* C1: authorization short-circuit. Once SecurityManager::authorize has
\* rejected the plan, Runtime::execute has returned that error,
\* Executor::execute was never entered and no step was dispatched, whatever
\* the position of the disallowed step in the plan.
C1_AuthShortCircuit ==
    (Planned /\ ~authorize(security, plan).ok) =>
        /\ pc = "done"
        /\ ret.kind = "err"
        /\ ret.error = authorize(security, plan).error
        /\ ~executorEntered
        /\ dispatched = <<>>
        /\ outputs = <<>>

\* C1 witness: a rejected plan whose first step uses an allowed tool and
\* whose second step is the disallowed one; Runtime::execute has returned.
C1_Witness ==
    /\ Planned /\ pc = "done"
    /\ Len(plan.steps) = 2
    /\ authorize(security, [plan EXCEPT !.steps = <<plan.steps[1]>>]).ok
    /\ ~authorize(security, plan).ok
    /\ ret.kind = "err"

(***************************************************************************)
(* Structure of a plan (spec section 3): ids, dependencies, cycles.        *)
(***************************************************************************)
StepIdsOf(p) == {p.steps[i].id : i \in 1..Len(p.steps)}
DepsOf(p, id) ==
    UNION {p.steps[i].dependencies : i \in {j \in 1..Len(p.steps) : p.steps[j].id = id}}

RECURSIVE DepClosure(_, _, _)
DepClosure(p, S, n) ==
    IF n = 0 THEN S
    ELSE DepClosure(p, S \cup UNION {DepsOf(p, x) : x \in S}, n - 1)

\* every id the step `id` depends on, directly or through other steps
TransDeps(p, id) == DepClosure(p, DepsOf(p, id), Len(p.steps))

UniqueIds(p) == Cardinality(StepIdsOf(p)) = Len(p.steps)
HasUnknownDep(p) == \E i \in 1..Len(p.steps) : ~(p.steps[i].dependencies \subseteq StepIdsOf(p))
HasCycle(p) == \E id \in StepIdsOf(p) : id \in TransDeps(p, id)
ValidPlan(p) == UniqueIds(p) /\ ~HasUnknownDep(p) /\ ~HasCycle(p)

\* Executor::execute has computed its batches
Scheduled == executorEntered /\ pc # "execute"
\* Executor::execute has returned
Returned == result.kind # "none"

\* the places <<batch, position>> at which a step with this id is scheduled
SlotsOf(id) ==
    {bi \in UNION {{<<b, i>> : i \in 1..Len(batches[b])} : b \in 1..Len(batches)} :
        batches[bi[1]][bi[2]].id = id}

\* C2: batch partition. For a valid plan the batches hold every step of the
\* plan exactly once and every dependency of a step lies in a strictly
\* earlier batch than the step.
C2_BatchPartition ==
    (Scheduled /\ ValidPlan(plan)) =>
        /\ \A id \in StepIdsOf(plan) : Cardinality(SlotsOf(id)) = 1
        /\ \A id \in StepIdsOf(plan) : \A d \in DepsOf(plan, id) :
              \A s \in SlotsOf(id) : \A t \in SlotsOf(d) : t[1] < s[1]

\* C3: no omitted slot. A returned TaskResult has one output per plan step.
C3_NoOmittedSlot ==
    result.kind = "ok" => Len(result.outputs) = Len(plan.steps)

\* C4: output order. In a returned TaskResult, outputs[i] exists and is the
\* output of the i-th step of the plan, for every step i.
C4_OutputOrder ==
    result.kind = "ok" =>
        \A i \in 1..Len(plan.steps) :
            /\ i <= Len(result.outputs)
            /\ i <= Len(outputSteps)
            /\ outputSteps[i] = plan.steps[i].id

\* C5: success flag. In a returned TaskResult, success is true exactly when
\* no step of the plan ended with an error.
C5_SuccessFlag ==
    result.kind = "ok" => (result.success <=> stepErrors = {})

\* C5 witness: Executor::execute returned a TaskResult for a plan with
\* steps, none of which ended with an error, and success is true.
C5_Witness ==
    /\ result.kind = "ok"
    /\ Len(plan.steps) >= 1
    /\ stepErrors = {}
    /\ result.success

\* C9: structural validation. For a plan with a dependency cycle or a
\* dependency on an id that is no step of the plan, Executor::execute never
\* returns a TaskResult: it returns an error and dispatches no step.
C9_StructuralValidation ==
    (executorEntered /\ (HasCycle(plan) \/ HasUnknownDep(plan))) =>
        /\ dispatched = <<>>
        /\ result.kind # "ok"
        /\ (pc = "done" => result.kind = "err")

\* No step is ever dispatched: the batch list is empty for every plan, so
\* the body of the batch loop is never run, no task is spawned and no step
\* ends with an error.
NoStepEverRuns ==
    /\ batches = <<>>
    /\ dispatched = <<>>
    /\ handles = <<>>
    /\ stepErrors = {}
    /\ outputs = <<>>
    /\ active_tasks = <<>>

\* C12: empty plan. A plan with zero steps is scheduled into zero batches and
\* Executor::execute returns Ok(TaskResult) with success = true, no outputs
\* and the plan's task_id, without dispatching a step; in Runtime::execute
\* the authorization of the empty plan succeeds.
C12_EmptyPlan ==
    /\ (Scheduled /\ plan.steps = <<>>) =>
           batches = <<>> /\ dispatched = <<>>
    /\ (Returned /\ plan.steps = <<>>) =>
           /\ result.kind = "ok"
           /\ result.success
           /\ result.outputs = <<>>
           /\ result.task_id = plan.task_id
    /\ (Planned /\ plan.steps = <<>>) =>
           /\ authResult = "ok"
           /\ plan.task_id = task.id

\* C12 witness: Runtime::execute has returned the TaskResult of a task
\* without tool calls.
C12_Witness ==
    /\ entry = "runtime" /\ pc = "done"
    /\ task.tool_calls = <<>>
    /\ plan.steps = <<>>
    /\ ret.kind = "ok" /\ ret.task_id = task.id

\* the order of the phases of Runtime::execute: plan, authorize, execute
\* (entry, then the batch loop), store, returned
PhaseRank(p) ==
    CASE p = "plan" -> 1
      [] p = "authorize" -> 2
      [] p = "execute" -> 3
      [] p \in {"loop", "join"} -> 4
      [] p = "store" -> 5
      [] OTHER -> 6

\* a step moves to a later phase (or stays inside the batch loop), and only
\* the store phase adds a record to the memory store
C15_PhaseStep ==
    /\ \/ PhaseRank(pc') > PhaseRank(pc)
       \/ pc \in {"loop", "join"} /\ pc' \in {"loop", "join"}
    /\ memories' # memories => pc = "store" /\ pc' = "done"

\* what the memory store holds for one call of Runtime::execute: one
\* execution record of this task once the call has returned a TaskResult of
\* an authorized plan, no record before that and none after an error
C15_Records ==
    entry = "runtime" =>
        /\ Len(memories) =
             IF pc = "done" /\ authResult = "ok" /\ result.kind = "ok"
             THEN 1 ELSE 0
        /\ (pc = "done" /\ ret.kind = "ok") =>
             /\ Len(memories) = 1
             /\ FromJson(memories[1].metadata).task_id = task.id
             /\ FromJson(memories[1].metadata).success = ret.success
        /\ (pc = "done" /\ ret.kind = "err") => memories = <<>>

\* C15: persistence per execution. Runtime::execute runs plan, authorize,
\* execute, store in this order, each at most once; exactly one execution
\* record is stored for a call whose plan was authorized and executed to a
\* TaskResult, and none when a phase returned an error.
C15_Persistence == []C15_Records /\ [][C15_PhaseStep]_vars

\* C15 witness: Runtime::execute returned the TaskResult of an authorized
\* plan with steps and the store holds its record.
C15_Witness ==
    /\ entry = "runtime" /\ pc = "done"
    /\ authResult = "ok" /\ ret.kind = "ok"
    /\ Len(plan.steps) >= 1
    /\ Len(memories) = 1
    /\ memories[1].source = "runtime"

(***************************************************************************)
(* The MemoryStore API used on its own: MemoryStore::new(":memory:"), then *)
(* store and search calls. Text that is searched is a sequence of          *)
(* characters.                                                             *)
(***************************************************************************)
\* most rows stored
MaxRows == 2
\* longest search query
MaxQuery == 2

Chars == {"T", "t", "e", "%", "_"}
Contents == {<<"T", "e">>, <<"t", "e">>, <<"e", "T">>, <<"%", "e">>, <<"e">>}
Queries == SeqsUpTo(Chars, MaxQuery)
MemoryIds == {"test-1", "test-2"}
Memories ==
    [id : MemoryIds, content : Contents, embedding : {"None", "Some"},
     timestamp : {0, 1}, importance : {5, 8}, decay_rate : {1},
     tags : {<<"test">>}, source : {"test"}, session_id : {"None"},
     metadata : {[task_id |-> ""]}]

\* SQLite folds the case of ASCII letters when LIKE compares two characters
Lower(c) == IF c = "T" THEN "t" ELSE c

\* text LIKE pattern: % matches any run of characters, _ exactly one, any
\* other character itself up to ASCII case; there is no escape character
RECURSIVE Like(_, _)
Like(pattern, text) ==
    IF pattern = <<>> THEN text = <<>>
    ELSE IF Head(pattern) = "%"
         THEN Like(Tail(pattern), text)
              \/ (text # <<>> /\ Like(pattern, Tail(text)))
    ELSE IF text = <<>> THEN FALSE
    ELSE IF Head(pattern) = "_" THEN Like(Tail(pattern), Tail(text))
    ELSE Lower(Head(pattern)) = Lower(Head(text))
         /\ Like(Tail(pattern), Tail(text))

\* a pattern that anchors the query at the start of the content
LikePattern_Prefix(q) == q \o <<"%">>

\* format!("%{}%", query)
LikePattern(q) == <<"%">> \o q \o <<"%">>

\* the rows selected by WHERE content LIKE ?1
MatchingRows(rows, q) ==
    {k \in 1..Len(rows) : Like(LikePattern(q), rows[k].content)}

\* ORDER BY importance DESC, timestamp DESC: row a must come before row b
SortsBefore(a, b) ==
    \/ a.importance > b.importance
    \/ a.importance = b.importance /\ a.timestamp > b.timestamp

\* the orders in which the selected rows may be returned: rows that tie on
\* both sort keys come in an order SQL leaves open
RowOrders(rows, q) ==
    LET M == MatchingRows(rows, q) IN
    {o \in [1..Cardinality(M) -> M] :
        /\ \A i, j \in 1..Cardinality(M) : i # j => o[i] # o[j]
        /\ \A i, j \in 1..Cardinality(M) :
              i < j => ~SortsBefore(rows[o[j]], rows[o[i]])}

Min(a, b) == IF a < b THEN a ELSE b

\* MemoryStore::search: what a call may return (LIMIT ?2 cuts the list)
search(rows, q, limit) ==
    {[i \in 1..Min(limit, Len(o)) |-> MemoryOf(rows[o[i]])] :
        o \in RowOrders(rows, q)}

InitMemory ==
    /\ entry = "memory"
    /\ security = [sandbox_mode |-> "Process",
                   allowed_tools |-> DefaultAllowedTools,
                   denied_tools |-> {}]
    /\ execConfig = [max_parallel |-> DefaultMaxParallel,
                     default_timeout_ms |-> DefaultTimeoutMs]
    /\ task = NoTask /\ plan = NoPlan /\ pc = "idle"
    /\ graph = NoGraph
    /\ batches = <<>>
    /\ batchIdx = 0
    /\ handles = <<>>
    /\ outputs = <<>>
    /\ result = NoResult
    /\ ret = NoResult
    /\ active_tasks = <<>>
    /\ memories = <<>>
    /\ authResult = "none"
    /\ executorEntered = FALSE
    /\ dispatched = <<>>
    /\ outputSteps = <<>>
    /\ stepErrors = {}
    /\ lastStore = NoStore
    /\ searchRes = NoSearch

runtimeVars == <<entry, task, security, execConfig, plan, pc, graph, batches,
                 batchIdx, handles, outputs, result, ret, active_tasks,
                 authResult, executorEntered, dispatched, outputSteps,
                 stepErrors>>

\* store.store(&memory).await. The caller stores up to MaxRows memories and
\* then searches: a search changes nothing in the table, so every table
\* content is searched with every query this way.
MemoryStoreCall ==
    /\ entry = "memory"
    /\ Len(memories) < MaxRows
    /\ ~searchRes.called
    /\ \E m \in Memories :
         LET r == store(memories, m) IN
         /\ memories' = r.rows
         /\ lastStore' = [called |-> TRUE, id |-> m.id, ok |-> r.ok]
    /\ searchRes' = searchRes
    /\ UNCHANGED runtimeVars

\* store.search(query, limit).await
MemorySearchCall ==
    /\ entry = "memory"
    /\ ~searchRes.called
    /\ \E q \in Queries : \E limit \in 0..MaxRows :
         \E res \in search(memories, q, limit) :
            searchRes' = [called |-> TRUE, query |-> q, limit |-> limit,
                          results |-> res]
    /\ UNCHANGED <<memories, lastStore>>
    /\ UNCHANGED runtimeVars

NextMemory == MemoryStoreCall \/ MemorySearchCall

SpecMemory == InitMemory /\ [][NextMemory]_vars

\* q occurs in text, character for character
IsSubstring(q, text) ==
    \E off \in 0..(Len(text) - Len(q)) :
        \A i \in 1..Len(q) : text[off + i] = q[i]

\* the search returned the stored row
Returns(row) ==
    \E i \in 1..Len(searchRes.results) :
        /\ searchRes.results[i].id = row.id
        /\ searchRes.results[i].content = row.content

\* C16: store then search. A search for q returns every stored memory whose
\* content contains q, provided the rows the query selects are at most
\* `limit`; on a store that holds one memory it returns exactly that one,
\* with its content.
C16_StoreThenSearch ==
    searchRes.called =>
        /\ \A k \in 1..Len(memories) :
              (/\ IsSubstring(searchRes.query, memories[k].content)
               /\ Cardinality(MatchingRows(memories, searchRes.query))
                     <= searchRes.limit)
              => Returns(memories[k])
        /\ (/\ Len(memories) = 1
            /\ IsSubstring(searchRes.query, memories[1].content)
            /\ searchRes.limit >= 1)
           => /\ Len(searchRes.results) = 1
              /\ searchRes.results[1].content = memories[1].content

\* C16 witness: two memories are stored, the query is a proper part of the
\* content of the second one only, and the search returned it.
C16_Witness ==
    /\ searchRes.called
    /\ lastStore.ok
    /\ Len(memories) = 2
    /\ searchRes.query # <<>>
    /\ searchRes.query # memories[2].content
    /\ IsSubstring(searchRes.query, memories[2].content)
    /\ ~IsSubstring(searchRes.query, memories[1].content)
    /\ Cardinality(MatchingRows(memories, searchRes.query)) <= searchRes.limit
    /\ Returns(memories[2])

\* C17: status lifecycle. Once a plan has been executed to a TaskResult, the
\* tracker (active_tasks) holds a status for every step of the plan, and that
\* status is terminal (Completed or Failed).
C17_StatusLifecycle ==
    result.kind = "ok" =>
        \A id \in StepIdsOf(plan) :
            /\ id \in DOMAIN active_tasks
            /\ active_tasks[id] \in {"Completed", "Failed"}

\* C19: planner output. The plan of a task carries the task's id and has one
\* step per tool call, in tool-call order, with the call's tool and
\* parameters; step ids are pairwise distinct and every dependency names a
\* step of the plan, without a cycle.
C19_PlannerContract ==
    Planned =>
        /\ plan.task_id = task.id
        /\ Len(plan.steps) = Len(task.tool_calls)
        /\ \A i \in 1..Len(plan.steps) :
              /\ plan.steps[i].tool_name = task.tool_calls[i].tool_name
              /\ plan.steps[i].parameters = task.tool_calls[i].parameters
        /\ UniqueIds(plan)
        /\ ~HasUnknownDep(plan)
        /\ ~HasCycle(plan)

\* C19 witness: a planned task that calls the same tool twice.
C19_Witness ==
    /\ Planned
    /\ Len(task.tool_calls) = 2
    /\ task.tool_calls[1].tool_name = task.tool_calls[2].tool_name
    /\ plan.steps[1].id # plan.steps[2].id

\* the policy in words: a step is permitted when its tool is on the
\* allowlist (or the allowlist is empty) and not on the deny list
Permitted(cfg, st) ==
    /\ cfg.allowed_tools = {} \/ st.tool_name \in cfg.allowed_tools
    /\ st.tool_name \notin cfg.denied_tools

\* the first step of the plan, in plan order, that is not permitted
FirstOffender(cfg, p) ==
    CHOOSE i \in 1..Len(p.steps) :
        /\ ~Permitted(cfg, p.steps[i])
        /\ \A j \in 1..(i - 1) : Permitted(cfg, p.steps[j])

\* the error reported for a step that is not permitted
OffenceOf(cfg, st) ==
    IF cfg.allowed_tools # {} /\ st.tool_name \notin cfg.allowed_tools
    THEN "Tool '" \o st.tool_name \o "' is not in allowlist"
    ELSE "Tool '" \o st.tool_name \o "' is denied"

C20_Decision ==
    (entry = "runtime" /\ authResult # "none") =>
        /\ authResult = "ok" <=>
              \A i \in 1..Len(plan.steps) : Permitted(security, plan.steps[i])
        /\ authResult = "rejected" =>
              ret.error = OffenceOf(security,
                                    plan.steps[FirstOffender(security, plan)])

C20_NoStateChange ==
    pc = "authorize" =>
        /\ security' = security
        /\ plan' = plan
        /\ task' = task
        /\ memories' = memories
        /\ active_tasks' = active_tasks
        /\ outputs' = outputs

\* C20: authorization decision. authorize accepts a plan exactly when every
\* step is permitted (tool on the allowlist or allowlist empty, and tool not
\* on the deny list; a tool on both lists is rejected); the error is that of
\* the first offending step in plan order; authorizing changes no state.
C20_AuthorizeDecision == []C20_Decision /\ [][C20_NoStateChange]_vars

\* C20 witness: a rejected plan with two offending steps, the first using a
\* tool that is on both lists, the second a tool missing from the allowlist;
\* the error is the first step's.
C20_Witness ==
    /\ entry = "runtime" /\ authResult = "rejected"
    /\ Len(plan.steps) = 2
    /\ plan.steps[1].tool_name \in security.allowed_tools
    /\ plan.steps[1].tool_name \in security.denied_tools
    /\ plan.steps[2].tool_name \notin security.allowed_tools
    /\ plan.steps[2].tool_name # plan.steps[1].tool_name
    /\ ret.error = "Tool '" \o plan.steps[1].tool_name \o "' is denied"

====
